---- MODULE Spec2Model ----
(***************************************************************************)
(* Streamline fiber-tracking of connectomemapper3 (DTB_streamline):        *)
(*   src/src/DTB/Applications/DTB_streamline/main.cxx   main               *)
(*   src/src/DTB/Common/streamline.h                    class streamline   *)
(*   src/src/DTB/Common/TrackVis.h                      class TrackVis     *)
(*   src/src/DTB/Common/utils.h                         Normalize          *)
(*                                                                         *)
(* Number representation.  Every float of the program is a rational with   *)
(* denominator SCALE: a coordinate c [mm] is the integer c*SCALE, a unit   *)
(* vector has integer components of norm SCALE, a volume fraction f is     *)
(* f*SCALE.  A dot product of two such vectors carries SCALE*SCALE.        *)
(* stepSize, minLength, pixdim and dim are whole numbers.  Float rounding  *)
(* is not modelled: arithmetic is exact.                                   *)
(***************************************************************************)
EXTENDS Integers, Sequences, FiniteSets, TLC

SCALE == 5

\* ------------------------------------------------------------------ bounds
\* largest valid maxLength the model draws (the program allows up to 1000)
MaxLen == 4
\* number of failing fwrite calls one run may suffer
MaxWriteFail == 1

\* ------------------------------------------------------- program constants
TRACKVIS_SAVE_ALL == 0
TRACKVIS_SAVE_HALF == 1
TRACKVIS_SAVE_UNIQUE == 2
TRACKVIS_VOXEL_OFFSET == 0
maxSteps == 2000
MaxLengthLimit == 1000
SeedsLimit == 64
StepSizeLimit == 4
MaxAngleLimit == 90

\* ----------------------------------------------------------------- vectors
Abs(a) == IF a < 0 THEN 0 - a ELSE a

Dot(u, v) == u[1]*v[1] + u[2]*v[2] + u[3]*v[3]

\* floor of the square root
ISqrt[n \in Nat] == CHOOSE r \in 0..n : r*r <= n /\ (r+1)*(r+1) > n

\* utils.h Normalize: v / |v| when |v| > 0, else v unchanged.  The result is
\* exact when |v| is a whole number of sub-units (every vector the tracker
\* normalises is stepSize times a unit candidate).
Normalize(v) ==
  LET norm == ISqrt[Dot(v, v)]
  IN  IF norm > 0
      THEN << (v[1]*SCALE) \div norm, (v[2]*SCALE) \div norm, (v[3]*SCALE) \div norm >>
      ELSE v

\* ------------------------------------------------------------------ volumes
\* One record of the direction field: volume fraction, then the direction.
Cand(vf, d) == << vf, d[1], d[2], d[3] >>

\* NIFTI.h load(): the image is a column-major blitz array over hdr->data, so
\* element (x,y,z,k) lives at offset x + dim1*(y + dim2*(z + dim3*k)).
Offset(dim, x, y, z, k) == x + dim[1] * (y + dim[2] * (z + dim[3] * k))

NVox(dim) == dim[1] * dim[2] * dim[3]

\* A direction field: F[v] is the 12 floats of the voxel with linear index v-1.
MkDir(dim, pixdim, F) ==
  [ dim |-> dim, pixdim |-> pixdim,
    img |-> [ o \in 0..(NVox(dim)*12 - 1) |-> F[(o % NVox(dim)) + 1][(o \div NVox(dim)) + 1] ] ]

\* A mask: M[v] is the UINT8 of the voxel with linear index v-1.
MkMask(dim, pixdim, M) ==
  [ dim |-> dim, pixdim |-> pixdim,
    img |-> [ o \in 0..(NVox(dim) - 1) |-> M[o + 1] ] ]

NoVol == [ dim |-> <<0, 0, 0>>, pixdim |-> <<0, 0, 0>>, img |-> <<>> ]

\* unit directions (norm SCALE) and the unspecified direction of an empty record
dX == <<5, 0, 0>>
dNX == <<-5, 0, 0>>
dY == <<0, 5, 0>>
d43 == <<4, 3, 0>>
d34 == <<3, 4, 0>>
dO == <<0, 0, 0>>

\* voxels of the direction field, records ranked by non-increasing fraction
VoxX == Cand(5, dX) \o Cand(0, dO) \o Cand(0, dO)
VoxZero == Cand(0, dO) \o Cand(0, dO) \o Cand(0, dO)
VoxA == Cand(5, dX) \o Cand(2, d43) \o Cand(1, dY)
VoxB == Cand(3, d43) \o Cand(2, dNX) \o Cand(2, d34)
VoxT == Cand(3, dY) \o Cand(2, dNX) \o Cand(2, dX)

\* grids: G1 is two 1 mm voxels along x, G2 one 2 mm voxel (the same field of
\* view), G3 three 1 mm voxels (a larger field of view)
G1dim == <<2, 1, 1>>
G1pix == <<1, 1, 1>>
G2dim == <<1, 1, 1>>
G2pix == <<2, 1, 1>>
G3dim == <<3, 1, 1>>

DirVolumes ==
  { MkDir(G1dim, G1pix, <<VoxX, VoxX>>),
    MkDir(G1dim, G1pix, <<VoxZero, VoxZero>>),
    MkDir(G1dim, G1pix, <<VoxB, VoxA>>),
    MkDir(G2dim, G2pix, <<VoxX>>) }

MaskVolumes ==
  { MkMask(G1dim, G1pix, <<1, 1>>),
    MkMask(G1dim, G1pix, <<1, 0>>),
    MkMask(G2dim, G2pix, <<1>>),
    MkMask(G3dim, G1pix, <<1, 1, 1>>) }

SeedVolumes ==
  { MkMask(G1dim, G1pix, <<0, 1>>),
    MkMask(G2dim, G2pix, <<1>>) }

\* the three values uniformGenerator.random() returns for one seed point,
\* each in [0,1), times SCALE
Rand == { <<0, 0, 0>>, <<3, 3, 3>> }

\* what a float read outside the direction field's allocation may return
Garbage == {0, 5}

\* ----------------------------------------------------------- configuration
\* tracking_config: the values the command line may carry.  The model draws
\* configurations that differ from BaseConfig in at most one field.
BaseConfig ==
  [ seeds |-> 1, minLength |-> 1, maxLength |-> MaxLen, stepSize |-> 1,
    volFracThr |-> 0, maxAngle |-> 45 ]

SeedsVals == {0, 1, 2, SeedsLimit + 1}
MinLengthVals == {-1, 0, 1, 2, 3}
MaxLengthVals == (0..MaxLen) \cup {MaxLengthLimit + 1}
StepSizeVals == {0, 1, 2, StepSizeLimit + 1}
VolFracVals == {-1, 0, 2, SCALE, SCALE + 1}
MaxAngleVals == {0, 1, 45, MaxAngleLimit, MaxAngleLimit + 1}

Fields == {"seeds", "minLength", "maxLength", "stepSize", "volFracThr", "maxAngle"}

FieldVals(f) ==
  CASE f = "seeds" -> SeedsVals
    [] f = "minLength" -> MinLengthVals
    [] f = "maxLength" -> MaxLengthVals
    [] f = "stepSize" -> StepSizeVals
    [] f = "volFracThr" -> VolFracVals
    [] f = "maxAngle" -> MaxAngleVals

Configs == UNION { { [BaseConfig EXCEPT ![f] = v] : v \in FieldVals(f) } : f \in Fields }

\* ------------------------------------------------------------------- state
VARIABLES
  pc,          \* position of the single thread of control
  status,      \* exit status of the process, -1 while it runs
  vm,          \* which of --dir, --wm, --out, --seed the command line carries
  files,       \* the volumes the files at the paths --dir, --wm, --seed may hold
  CONFIG,      \* tracking_config
  niiDIR, niiMASK, niiSEED,   \* the volumes main reads
  seedSet,     \* streamline::niiSEED != NULL
  maskSet,     \* streamline::niiMASK != NULL
  warned,      \* setWhiteMatterMask printed its field-of-view warning
  ANGLE_thr,   \* streamline::ANGLE_thr, times SCALE*SCALE, rounded down
  FIBERs, LENGTHs, tmp,       \* the tracker's buffers
  COORD_seed, COORD, dir, VOXEL_wm, VOXEL_dsi,
  found, step, dirFound,      \* function statics of trackFromXYZ
  seedNum, seedDir, semi_step,
  x, y, z,     \* doTracking's raster position
  foundAtXYZ, i, tot_fibers,  \* doTracking's locals
  TRK,         \* the TrackVis object: fp and what create returned
  disk,        \* the output file as it is on disk
  writeFails,  \* failing fwrite calls so far
  seedUse,     \* the candidate the seed-direction gate last let through
  pick,        \* the last call of pickBestDir: arguments and result
  colWritten,  \* the column of the fiber buffer the last write went to
  calls,       \* how often each operation of the store ran
  rets         \* what append last returned and what doTracking returned

vars == << pc, status, vm, files, CONFIG, niiDIR, niiMASK, niiSEED, seedSet, maskSet, warned, ANGLE_thr,
           FIBERs, LENGTHs, tmp, COORD_seed, COORD, dir, VOXEL_wm, VOXEL_dsi,
           found, step, dirFound, seedNum, seedDir, semi_step, x, y, z,
           foundAtXYZ, i, tot_fibers, TRK, disk, writeFails, seedUse, pick,
           colWritten, calls, rets >>

trackerVars == << FIBERs, LENGTHs, tmp, COORD_seed, COORD, dir, VOXEL_wm, VOXEL_dsi,
                  found, step, dirFound, seedNum, seedDir, semi_step,
                  seedUse, pick, colWritten >>
loopVars == << x, y, z, foundAtXYZ, i, tot_fibers >>
fileVars == << TRK, disk, writeFails >>
inputVars == << vm, files, CONFIG, niiDIR, niiMASK, niiSEED, seedSet, maskSet, warned, ANGLE_thr >>

NoPick == [ ret |-> FALSE, called |-> FALSE, vecIn |-> dO, vecOut |-> dO,
            vf |-> 0, dot |-> 0, cand |-> dO ]
NoUse == [ used |-> FALSE, vf |-> 0 ]
\* how often each operation of the store was called, and what updateTotal got
\* saveMethod: the policy append is called with
NoCalls == [ create |-> 0, append |-> 0, updateTotal |-> 0, fclose |-> 0, total |-> -1,
             saveMethod |-> TRACKVIS_SAVE_UNIQUE ]
NoRets == [ append |-> -1, doTracking |-> -1 ]

\* TrackVis::TrackVis(): fp = NULL; nothing is on disk.
\* clobbered: a header field other than n_count was overwritten after create
NoFile == [ exists |-> FALSE, dim |-> <<0, 0, 0>>, voxel_size |-> <<0, 0, 0>>,
            n_count |-> 0, clobbered |-> FALSE, records |-> 0, torn |-> 0,
            numSaved |-> 0, last |-> <<>> ]

\* the small volumes of every run of Spec
AllFiles == [ dir |-> DirVolumes, wm |-> MaskVolumes, seed |-> SeedVolumes ]

\* the state main starts in, for a command line drawn from flags and
\* configs and the input files f
Start(flags, configs, f) ==
  /\ pc = "main"
  /\ status = -1
  /\ vm \in flags
  /\ files = f
  /\ CONFIG \in configs
  /\ niiDIR = NoVol /\ niiMASK = NoVol /\ niiSEED = NoVol
  /\ seedSet = FALSE /\ maskSet = FALSE /\ warned = FALSE
  /\ ANGLE_thr = 0
  /\ FIBERs = <<>> /\ LENGTHs = <<>> /\ tmp = <<>>
  /\ COORD_seed = dO /\ COORD = dO /\ dir = dO
  /\ VOXEL_wm = dO /\ VOXEL_dsi = dO
  /\ found = 0 /\ step = 0 /\ dirFound = FALSE
  /\ seedNum = 0 /\ seedDir = 0 /\ semi_step = 0
  /\ x = 0 /\ y = 0 /\ z = 0
  /\ foundAtXYZ = 0 /\ i = 0 /\ tot_fibers = 0
  /\ TRK = [ fp |-> "NULL", created |-> -1 ]
  /\ disk = NoFile
  /\ writeFails = 0
  /\ seedUse = NoUse
  /\ pick = NoPick
  /\ colWritten = -1
  /\ calls = NoCalls
  /\ rets = NoRets

Init == Start([ {"dir", "wm", "out", "seed"} -> BOOLEAN ], Configs, AllFiles)

\* ------------------------------------------------------------------- main
\* main.cxx 67-112: the checks on the parsed command line; TRUE when main
\* returns 1.
ConfigRejected(c, args) ==
  \/ ~args["dir"]
  \/ ~args["wm"]
  \/ ~args["out"]
  \/ c.volFracThr < 0 \/ c.volFracThr > SCALE
  \/ c.stepSize <= 0 \/ c.stepSize > StepSizeLimit
  \/ c.maxLength < 1 \/ c.maxLength > MaxLengthLimit
  \/ c.maxAngle < 1 \/ c.maxAngle > MaxAngleLimit
  \/ c.seeds < 1 \/ c.seeds > SeedsLimit

Exit(code) == pc' = "exit" /\ status' = code

MainCheck ==
  /\ pc = "main"
  /\ IF ConfigRejected(CONFIG, vm)
     THEN Exit(1)
     ELSE pc' = "read_dir" /\ UNCHANGED status
  /\ UNCHANGED << inputVars, trackerVars, loopVars, fileVars, calls, rets >>

\* main.cxx 133-137: the DIR dataset is read; an unreadable file or a wrong
\* datatype ends the process with exit(1).
ReadDIR ==
  /\ pc = "read_dir"
  /\ \/ Exit(1) /\ UNCHANGED niiDIR
     \/ \E v \in files.dir : niiDIR' = v /\ pc' = "read_mask" /\ UNCHANGED status
  /\ UNCHANGED << vm, files, CONFIG, niiMASK, niiSEED, seedSet, maskSet, warned, ANGLE_thr,
                  trackerVars, loopVars, fileVars, calls, rets >>

\* main.cxx 148-152
ReadMASK ==
  /\ pc = "read_mask"
  /\ \/ Exit(1) /\ UNCHANGED niiMASK
     \/ \E v \in files.wm : niiMASK' = v /\ pc' = "read_seed" /\ UNCHANGED status
  /\ UNCHANGED << vm, files, CONFIG, niiDIR, niiSEED, seedSet, maskSet, warned, ANGLE_thr,
                  trackerVars, loopVars, fileVars, calls, rets >>

\* main.cxx 161-177: the SEED image is read only when --seed was given.
ReadSEED ==
  /\ pc = "read_seed"
  /\ IF vm["seed"]
     THEN \/ Exit(1) /\ UNCHANGED niiSEED
          \/ \E v \in files.seed : niiSEED' = v /\ pc' = "setConfig" /\ UNCHANGED status
     ELSE pc' = "setConfig" /\ UNCHANGED << status, niiSEED >>
  /\ UNCHANGED << vm, files, CONFIG, niiDIR, niiMASK, seedSet, maskSet, warned, ANGLE_thr,
                  trackerVars, loopVars, fileVars, calls, rets >>

\* ------------------------------------------------------------- streamline
\* what blitz resize leaves in a fresh buffer: memory nobody has written
Uninit == -99

\* streamline.h 102: cos(maxAngle/180*3.14159265) for the angles the model
\* draws, times SCALE*SCALE and rounded down.  A dot product is a whole
\* number of 1/(SCALE*SCALE), so DOTabs > cos(..) iff DOTabs > CosScaled(..).
\* cos of 90 degrees comes out as 1.8e-9 because 3.14159265 < pi.
CosScaled(a) ==
  CASE a = 1 -> 24
    [] a = 45 -> 17
    [] a = 90 -> 0
    [] OTHER -> SCALE * SCALE

\* a FIBER is Array<float,2> resized to (3, ncols), stored row by row: element
\* (r,c) is at r*ncols + c.  blitz does not check the indices, so column
\* c >= ncols of row r is the cell r*ncols + c all the same.  The model keeps
\* the one cell behind the allocation that the tracker can touch.
NewFiber(ncols) == [ o \in 0..(3 * ncols) |-> Uninit ]

ReadPoint(f, ncols, c) == << f[c], f[ncols + c], f[2 * ncols + c] >>

WritePoint(f, ncols, c, p) ==
  [ f EXCEPT ![c] = p[1], ![ncols + c] = p[2], ![2 * ncols + c] = p[3] ]

\* the size a mutated setConfig gives the two arrays: one fiber per seed point
NFibersOne(seeds) == seeds

\* streamline.h 103-104: the size of FIBERs and of LENGTHs
NFibers(seeds) == seeds * 3

\* streamline.h 99-107
SetConfig ==
  /\ pc = "setConfig"
  /\ ANGLE_thr' = CosScaled(CONFIG.maxAngle)
  /\ FIBERs' = [ f \in 0..(NFibers(CONFIG.seeds) - 1) |-> NewFiber(CONFIG.maxLength) ]
  /\ LENGTHs' = [ f \in 0..(NFibers(CONFIG.seeds) - 1) |-> Uninit ]
  /\ pc' = "setWhiteMatterMask"
  /\ UNCHANGED << status, vm, files, CONFIG, niiDIR, niiMASK, niiSEED, seedSet, maskSet, warned,
                  tmp, COORD_seed, COORD, dir, VOXEL_wm, VOXEL_dsi, found, step, dirFound,
                  seedNum, seedDir, semi_step, seedUse, pick, colWritten,
                  loopVars, fileVars, calls, rets >>

\* streamline.h 113-115: the fields of view differ on some axis
FovDiffers(a, b) ==
  \E k \in 1..3 : a.dim[k] * a.pixdim[k] # b.dim[k] * b.pixdim[k]

\* a mutated comparison that looks at the fields of view only
GeometryDiffersFov(a, b) ==
  \E k \in 1..3 : a.dim[k] * a.pixdim[k] # b.dim[k] * b.pixdim[k]

\* streamline.h 130-135: voxel size or voxel count differ on some axis
GeometryDiffers(a, b) ==
  \E k \in 1..3 : a.pixdim[k] # b.pixdim[k] \/ a.dim[k] # b.dim[k]

\* streamline.h 110-121: a mismatch prints a warning; the mask is taken anyway.
SetWhiteMatterMask ==
  /\ pc = "setWhiteMatterMask"
  /\ warned' = FovDiffers(niiMASK, niiDIR)
  /\ maskSet' = TRUE
  /\ pc' = "setSeedMask"
  /\ UNCHANGED << status, vm, files, CONFIG, niiDIR, niiMASK, niiSEED, seedSet, ANGLE_thr,
                  trackerVars, loopVars, fileVars, calls, rets >>

\* streamline.h 124-143; main.cxx 190 passes NULL when no --seed was given.
SetSeedMask ==
  /\ pc = "setSeedMask"
  /\ seedSet' = vm["seed"]
  /\ IF vm["seed"] /\ GeometryDiffers(niiSEED, niiDIR)
     THEN Exit(1)
     ELSE pc' = "create" /\ UNCHANGED status
  /\ UNCHANGED << vm, files, CONFIG, niiDIR, niiMASK, niiSEED, maskSet, warned, ANGLE_thr,
                  trackerVars, loopVars, fileVars, calls, rets >>

\* ---------------------------------------------------------------- TrackVis
\* TrackVis.h 83-89: create returns 0 on the first axis with dim or pixdim <= 0
BadGeometry(dim, pixdim) == \E k \in 1..3 : dim[k] <= 0 \/ pixdim[k] <= 0

\* TrackVis.h 80-121 called from streamline.h 152-158.  canOpen is whether
\* fopen(filename, "w+b") succeeds.  doTracking drops the value create returns.
Create(canOpen) ==
  /\ pc = "create"
  /\ maskSet
  /\ IF BadGeometry(niiMASK.dim, niiMASK.pixdim)
     THEN /\ TRK' = [ fp |-> "NULL", created |-> 0 ]
          /\ UNCHANGED disk
     ELSE IF ~canOpen
     THEN /\ TRK' = [ fp |-> "NULL", created |-> 0 ]
          /\ UNCHANGED disk
     ELSE /\ TRK' = [ fp |-> "open", created |-> 1 ]
          /\ disk' = [ NoFile EXCEPT !.exists = TRUE, !.dim = niiMASK.dim,
                                     !.voxel_size = niiMASK.pixdim, !.n_count = 0 ]
  /\ calls' = [ calls EXCEPT !.create = @ + 1 ]
  /\ x' = 0 /\ y' = 0 /\ z' = 0 /\ tot_fibers' = 0
  /\ pc' = "voxel"
  /\ UNCHANGED << status, inputVars, trackerVars, foundAtXYZ, i, writeFails, rets >>

\* ------------------------------------------------------------ trackFromXYZ
\* floor( c / pixdim ) of a coordinate kept in 1/SCALE mm
VoxelOf(c, pixdim) ==
  << c[1] \div (SCALE * pixdim[1]), c[2] \div (SCALE * pixdim[2]), c[3] \div (SCALE * pixdim[3]) >>

\* the test of a mutated tracker that looks at the grid only, not at the
\* value of the mask
OutsideGrid(v, m) ==
  \/ v[1] < 0 \/ v[1] > m.dim[1] - 1
  \/ v[2] < 0 \/ v[2] > m.dim[2] - 1
  \/ v[3] < 0 \/ v[3] > m.dim[3] - 1

\* streamline.h 229-234 and 274-279: the point is outside the white-matter mask
OutsideMask(v, m) ==
  \/ v[1] < 0 \/ v[1] > m.dim[1] - 1
  \/ v[2] < 0 \/ v[2] > m.dim[2] - 1
  \/ v[3] < 0 \/ v[3] > m.dim[3] - 1
  \/ m.img[Offset(m.dim, v[1], v[2], v[3], 0)] = 0

\* (*niiDIR->img)(x,y,z,k): blitz computes the offset and reads it unchecked.
\* An offset inside the allocation yields whatever float lives there; g is
\* what comes back from a read outside it.
DirRead(d, v, k, g) ==
  LET o == Offset(d.dim, v[1], v[2], v[3], k)
  IN  IF o \in DOMAIN d.img THEN d.img[o] ELSE g

\* the gate of a mutated tracker that starts fibers along records whose
\* fraction equals the threshold
SeedGateSkipsLax(vf, thr) == vf < thr

\* streamline.h 240: the seed-direction gate skips the candidate
SeedGateSkips(vf, thr) == vf <= thr

\* the gate of a mutated tracker that lets a fraction equal to the threshold pass
PickGateSkipsLax(vf, thr) == vf < thr

\* streamline.h 332: pickBestDir skips the candidate
PickGateSkips(vf, thr) == vf <= thr

\* a mutated acceptance test that lets a later candidate with an equal dot
\* product replace the best so far
BetterOrEqual(DOTabs, athr, max) == DOTabs > athr /\ DOTabs >= max

\* a mutated acceptance test without the angle threshold
BetterNoAngle(DOTabs, athr, max) == DOTabs > max

\* streamline.h 339: the candidate is inside the cone and beats the best so far
Better(DOTabs, athr, max) == DOTabs > athr /\ DOTabs > max

\* streamline.h 342: the index of the candidate, negative when it points backward
SignedIdx(DOT, k) == IF DOT > 0 THEN k + 1 ELSE 0 - (k + 1)

\* streamline.h 330-344: one turn of the loop over the three records; s is
\* idx and max before the turn, the result is idx and max after it
PickLoop(d, v, vec, thr, athr, g, s, k) ==
  LET vf == DirRead(d, v, k * 4, g)
      DOT == vec[1] * DirRead(d, v, k * 4 + 1, g) +
             vec[2] * DirRead(d, v, k * 4 + 2, g) +
             vec[3] * DirRead(d, v, k * 4 + 3, g)
      DOTabs == Abs(DOT)
  IN  IF PickGateSkips(vf, thr) THEN s
      ELSE IF Better(DOTabs, athr, s.max)
           THEN [ idx |-> SignedIdx(DOT, k), max |-> DOTabs ]
           ELSE s

\* streamline.h 324-353.  The result carries, next to the return value and
\* the vector written back, what the chosen record held.  After[n] is idx and
\* max after n turns of the loop; Out[s] is what follows the loop.
pickBestDir(d, v, vec, thr, athr, g) ==
  LET After[n \in 0..3] ==
        IF n = 0 THEN [ idx |-> 0, max |-> 0 ]
        ELSE PickLoop(d, v, vec, thr, athr, g, After[n - 1], n - 1)
      Out[s \in [ idx : -3..3, max : Nat ]] ==
        LET sgn == IF s.idx < 0 THEN -1 ELSE 1
            idx == (Abs(s.idx) - 1) * 4
            c == << DirRead(d, v, idx + 1, g), DirRead(d, v, idx + 2, g),
                    DirRead(d, v, idx + 3, g) >>
        IN  IF s.idx = 0
            THEN [ ret |-> FALSE, called |-> TRUE, vecIn |-> vec, vecOut |-> vec,
                   vf |-> 0, dot |-> 0, cand |-> dO ]
            ELSE [ ret |-> TRUE, called |-> TRUE, vecIn |-> vec,
                   vecOut |-> << sgn * c[1], sgn * c[2], sgn * c[3] >>,
                   vf |-> DirRead(d, v, idx, g), dot |-> Dot(vec, c), cand |-> c ]
  IN  Out[After[3]]

\* pickBestDir reads a float outside the allocation of the direction field:
\* the fraction of some record, or the direction of a record whose fraction
\* passes the gate
ReadsOutside(d, v, thr) ==
  \E k \in 0..2 :
    \/ Offset(d.dim, v[1], v[2], v[3], k * 4) \notin DOMAIN d.img
    \/ /\ ~PickGateSkips(d.img[Offset(d.dim, v[1], v[2], v[3], k * 4)], thr)
       /\ \E j \in 1..3 : Offset(d.dim, v[1], v[2], v[3], k * 4 + j) \notin DOMAIN d.img

Crash == pc' = "crashed" /\ status' = 139

\* the next voxel of a mutated loop nest whose innermost loop runs over y
NextVoxelYFirst ==
  IF y + 1 < niiDIR.dim[2] THEN << x, y + 1, z >>
  ELSE IF x + 1 < niiDIR.dim[1] THEN << x + 1, 0, z >>
  ELSE << 0, 0, z + 1 >>

\* streamline.h 166-173: the next voxel in raster order, x fastest
NextVoxel ==
  IF x + 1 < niiDIR.dim[1] THEN << x + 1, y, z >>
  ELSE IF y + 1 < niiDIR.dim[2] THEN << 0, y + 1, z >>
  ELSE << 0, 0, z + 1 >>

\* streamline.h 166-173 and 208-217: the head of the raster loop, and the
\* entry of trackFromXYZ for a voxel the seed mask does not exclude.
Voxel ==
  /\ pc = "voxel"
  /\ IF ~(z < niiDIR.dim[3])
     THEN /\ pc' = "updateTotal"
          /\ UNCHANGED << x, y, z, found, seedNum, calls >>
     ELSE IF seedSet /\ niiSEED.img[Offset(niiSEED.dim, x, y, z, 0)] = 0
     THEN /\ x' = NextVoxel[1] /\ y' = NextVoxel[2] /\ z' = NextVoxel[3]
          /\ pc' = "voxel"
          /\ UNCHANGED << found, seedNum, calls >>
     ELSE /\ found' = 0 /\ seedNum' = 0
          /\ pc' = "seed"
          /\ UNCHANGED << x, y, z, calls >>
  /\ UNCHANGED << status, inputVars, FIBERs, LENGTHs, tmp, COORD_seed, COORD, dir,
                  VOXEL_wm, VOXEL_dsi, step, dirFound, seedDir, semi_step,
                  seedUse, pick, colWritten, foundAtXYZ, i, tot_fibers, fileVars, rets >>

\* streamline.h 318 and 173-177: trackFromXYZ returns found
ReturnFound ==
  /\ foundAtXYZ' = found /\ i' = 0 /\ pc' = "save"

\* streamline.h 218-234: the head of the loop over the seed points: a random
\* point in the voxel; a point outside the white-matter mask leaves the loop.
Seed ==
  /\ pc = "seed"
  /\ IF ~(seedNum < CONFIG.seeds)
     THEN /\ ReturnFound
          /\ UNCHANGED << COORD_seed, VOXEL_wm, seedDir >>
     ELSE \E r \in Rand :
            LET s == << (x * SCALE + r[1]) * niiDIR.pixdim[1],
                        (y * SCALE + r[2]) * niiDIR.pixdim[2],
                        (z * SCALE + r[3]) * niiDIR.pixdim[3] >>
                w == VoxelOf(s, niiMASK.pixdim)
            IN  /\ COORD_seed' = s
                /\ VOXEL_wm' = w
                /\ IF OutsideMask(w, niiMASK)
                   THEN ReturnFound /\ UNCHANGED seedDir
                   ELSE seedDir' = 0 /\ pc' = "seedDir" /\ UNCHANGED << foundAtXYZ, i >>
  /\ UNCHANGED << status, inputVars, FIBERs, LENGTHs, tmp, COORD, dir, VOXEL_dsi,
                  found, step, dirFound, seedNum, semi_step, seedUse, pick, colWritten,
                  x, y, z, tot_fibers, fileVars, calls, rets >>

Add(p, k, d) == << p[1] + k * d[1], p[2] + k * d[2], p[3] + k * d[3] >>
Sub(p, q) == << p[1] - q[1], p[2] - q[2], p[3] - q[3] >>

\* the travel direction at the head of a pass, streamline.h 263-266
PassDir(f, ncols, st) == Normalize(Sub(ReadPoint(f, ncols, st - 1), ReadPoint(f, ncols, st - 2)))

\* streamline.h 238-260 and 263-266: the head of the loop over the three
\* records of the seed voxel.  A record that passes the gate starts a fiber:
\* columns 0 and 1 of FIBERs(found) are written whatever maxLength is, and
\* the first pass is set up.  With maxLength = 1 the write of (2,1) falls
\* behind the allocation: the process may die there or go on.
SeedDir ==
  /\ pc = "seedDir"
  /\ IF ~(seedDir < 3)
     THEN /\ seedNum' = seedNum + 1
          /\ pc' = "seed"
          /\ UNCHANGED << status, FIBERs, COORD, dir, step, seedDir, semi_step, seedUse, colWritten >>
     ELSE LET vf == DirRead(niiDIR, << x, y, z >>, seedDir * 4, 0)
              c == << DirRead(niiDIR, << x, y, z >>, seedDir * 4 + 1, 0),
                      DirRead(niiDIR, << x, y, z >>, seedDir * 4 + 2, 0),
                      DirRead(niiDIR, << x, y, z >>, seedDir * 4 + 3, 0) >>
              ncols == CONFIG.maxLength
          IN  IF SeedGateSkips(vf, CONFIG.volFracThr)
              THEN /\ seedDir' = seedDir + 1
                   /\ pc' = "seedDir"
                   /\ UNCHANGED << status, FIBERs, COORD, dir, step, semi_step, seedUse,
                                   colWritten, seedNum >>
              ELSE /\ seedUse' = [ used |-> TRUE, vf |-> vf ]
                   /\ FIBERs' = [ FIBERs EXCEPT ![found] =
                                    WritePoint(WritePoint(@, ncols, 0, COORD_seed), ncols, 1,
                                               Add(COORD_seed, CONFIG.stepSize, c)) ]
                   /\ colWritten' = 1
                   /\ COORD' = ReadPoint(FIBERs'[found], ncols, 1)
                   /\ step' = 2
                   /\ semi_step' = 0
                   /\ dir' = PassDir(FIBERs'[found], ncols, 2)
                   /\ UNCHANGED << seedDir, seedNum >>
                   /\ IF 2 * ncols + 1 >= 3 * ncols
                      THEN Crash \/ (pc' = "step" /\ UNCHANGED status)
                      ELSE pc' = "step" /\ UNCHANGED status
  /\ UNCHANGED << inputVars, LENGTHs, tmp, COORD_seed, VOXEL_wm, VOXEL_dsi, found, dirFound,
                  pick, loopVars, fileVars, calls, rets >>

\* a mutated counter that forgets to count the point
NextStepStuck(st) == st

\* streamline.h 296: step++
NextStep(st) == st + 1

\* the image after a mutated pickBestDir that stores the signed direction
\* back into the record it chose
ImageAfterPickSigned(d, v, p) ==
  LET rec(k) == << DirRead(d, v, k * 4 + 1, 0), DirRead(d, v, k * 4 + 2, 0),
                   DirRead(d, v, k * 4 + 3, 0) >>
      hit(o) == { h \in (0..2) \X (1..3) :
                    /\ o = Offset(d.dim, v[1], v[2], v[3], h[1] * 4 + h[2])
                    /\ rec(h[1]) = p.cand }
  IN  [ o \in DOMAIN d.img |->
          IF p.ret /\ hit(o) # {}
          THEN p.vecOut[(CHOOSE h \in hit(o) : TRUE)[2]]
          ELSE d.img[o] ]

\* streamline.h 324-353: pickBestDir reads (*niiDIR->img)(...) and assigns
\* only to its locals and to vec; the image after the call is the image before.
ImageAfterPick(d, v, p) == d.img

\* the condition of a mutated stepping loop that allows one point more
LoopRunsLax(st, maxLength) == st <= maxLength

\* streamline.h 268: while( step<CONFIG->maxLength )
LoopRuns(st, maxLength) == st < maxLength

\* streamline.h 268-297: one turn of the stepping loop.  A turn that does not
\* leave the loop appends one point and increases step.
Step ==
  /\ pc = "step"
  /\ IF ~LoopRuns(step, CONFIG.maxLength)
     THEN /\ pc' = "endPass"
          /\ UNCHANGED << status, FIBERs, COORD, dir, VOXEL_wm, VOXEL_dsi, step, dirFound,
                          pick, colWritten, niiDIR >>
     ELSE LET w == VoxelOf(COORD, niiMASK.pixdim)
              v == VoxelOf(COORD, niiDIR.pixdim)
          IN  /\ VOXEL_wm' = w
              /\ IF OutsideMask(w, niiMASK)
                 THEN /\ pc' = "endPass"
                      /\ UNCHANGED << status, FIBERs, COORD, dir, VOXEL_dsi, step, dirFound,
                                      pick, colWritten, niiDIR >>
                 ELSE /\ VOXEL_dsi' = v
                      /\ \/ /\ ReadsOutside(niiDIR, VOXEL_dsi', CONFIG.volFracThr)
                            /\ Crash
                            /\ UNCHANGED << FIBERs, COORD, dir, step, dirFound, pick, colWritten,
                                            niiDIR >>
                         \/ \E g \in Garbage :
                              /\ ReadsOutside(niiDIR, VOXEL_dsi', CONFIG.volFracThr) \/ g = 0
                              /\ pick' = pickBestDir(niiDIR, VOXEL_dsi', dir, CONFIG.volFracThr,
                                                    ANGLE_thr, g)
                              /\ dirFound' = pick'.ret
                              /\ niiDIR' = [ niiDIR EXCEPT !.img =
                                               ImageAfterPick(niiDIR, VOXEL_dsi', pick') ]
                              /\ UNCHANGED status
                              /\ IF ~dirFound'
                                 THEN /\ pc' = "endPass"
                                      /\ UNCHANGED << FIBERs, COORD, dir, step, colWritten >>
                                 ELSE /\ dir' = pick'.vecOut
                                      /\ COORD' = Add(COORD, CONFIG.stepSize, dir')
                                      /\ FIBERs' = [ FIBERs EXCEPT ![found] =
                                                       WritePoint(@, CONFIG.maxLength, step, COORD') ]
                                      /\ colWritten' = step
                                      /\ step' = NextStep(step)
                                      /\ pc' = "step"
  /\ UNCHANGED << vm, files, CONFIG, niiMASK, niiSEED, seedSet, maskSet, warned, ANGLE_thr,
                  LENGTHs, tmp, COORD_seed, found, seedNum, seedDir, semi_step,
                  seedUse, loopVars, fileVars, calls, rets >>

\* FIBERs(found)(Range(0,2),Range(0,st-1)) = tmp, row by row, cell by cell:
\* cell number k of that order is element (k \div st, k % st), stored at
\* offset (k \div st) * ncols + (k % st).  An offset stored twice keeps the
\* later store.
StoreCells(f, ncols, st, pts) ==
  [ o \in DOMAIN f |->
      LET ks == { k \in 0..(3 * st - 1) : (k \div st) * ncols + (k % st) = o }
      IN  IF ks = {} THEN f[o]
          ELSE LET k == CHOOSE m \in ks : \A n \in ks : n <= m
               IN  pts[(k % st) + 1][(k \div st) + 1] ]

\* streamline.h 307-309: tmp is the first st columns, in reverse order
Reversed(f, ncols, st) == [ c \in 1..st |-> ReadPoint(f, ncols, st - c) ]

\* streamline.h 300-314 and 263-266: the end of a pass.  After the first pass
\* the fiber is reversed, tracking restarts at the seed point and the second
\* pass is set up; after the second pass the length is recorded.
EndPass ==
  /\ pc = "endPass"
  /\ IF semi_step = 0
     THEN LET ncols == CONFIG.maxLength
          IN  /\ COORD' = ReadPoint(FIBERs[found], ncols, 0)
              /\ tmp' = Reversed(FIBERs[found], ncols, step)
              /\ FIBERs' = [ FIBERs EXCEPT ![found] = StoreCells(@, ncols, step, tmp') ]
              /\ semi_step' = 1
              /\ dir' = PassDir(FIBERs'[found], ncols, step)
              /\ pc' = "step"
              /\ UNCHANGED << LENGTHs, found, seedDir >>
     ELSE /\ LENGTHs' = [ LENGTHs EXCEPT ![found] = step ]
          /\ found' = found + 1
          /\ semi_step' = 2
          /\ seedDir' = seedDir + 1
          /\ pc' = "seedDir"
          /\ UNCHANGED << COORD, tmp, FIBERs, dir >>
  /\ UNCHANGED << status, inputVars, COORD_seed, VOXEL_wm, VOXEL_dsi, step, dirFound,
                  seedNum, seedUse, pick, colWritten, loopVars, fileVars, calls, rets >>

\* ------------------------------------------------------ append and the rest
\* TrackVis.h 176-178: floor of the three coordinates of a point
Floor3(p) == << p[1] \div SCALE, p[2] \div SCALE, p[3] \div SCALE >>

\* TrackVis.h 158-160 and 180-182: a point as it is put into tmp
Emit(p) == Add(p, TRACKVIS_VOXEL_OFFSET, <<1, 1, 1>>)

\* a mutated count that rounds down
FloorHalf(n) == n \div 2

\* ceil((float)n / 2) of TrackVis.h 157
CeilHalf(n) == 0 - ((0 - n) \div 2)

\* a mutated loop of the Half policy that runs down to index 0 and so stores
\* the first point twice for an odd number of points
RECURSIVE HalfLoopToZero(_, _, _, _)
HalfLoopToZero(f, ncols, k, out) ==
  IF k >= 0 THEN HalfLoopToZero(f, ncols, k - 2, Append(out, Emit(ReadPoint(f, ncols, k))))
  ELSE out

\* TrackVis.h 158-163: for(i = numPoints-1; i > 0; i -= 2), from i = k on
RECURSIVE HalfLoop(_, _, _, _)
HalfLoop(f, ncols, k, out) ==
  IF k > 0 THEN HalfLoop(f, ncols, k - 2, Append(out, Emit(ReadPoint(f, ncols, k))))
  ELSE out

\* TrackVis.h 154-167: the Half policy; numSaved is computed before the loop,
\* tmp is what the loop and the three stores behind it leave (pos = 3*Len(tmp))
Half(f, ncols, numPoints) ==
  [ numSaved |-> CeilHalf(numPoints - 1) + 1,
    tmp |-> Append(HalfLoop(f, ncols, numPoints - 1, <<>>), Emit(ReadPoint(f, ncols, 0))) ]

\* the test of a mutated Unique policy that compares the x coordinate only
SameVoxelX(p, old) == p[1] = old[1]

\* TrackVis.h 179: the negation of X!=oldX || Y!=oldY || Z!=oldZ
SameVoxel(p, old) == p = old

\* TrackVis.h 171-187: the loop of the Unique policy from column k on; s
\* holds tmp, numSaved and oldX, oldY, oldZ
RECURSIVE UniqueFrom(_, _, _, _, _)
UniqueFrom(f, ncols, numPoints, k, s) ==
  IF k >= numPoints THEN s
  ELSE LET p == ReadPoint(f, ncols, k)
       IN  IF Len(s.tmp) = 0 \/ ~SameVoxel(Floor3(p), s.old)
           THEN UniqueFrom(f, ncols, numPoints, k + 1,
                           [ tmp |-> Append(s.tmp, Emit(p)), numSaved |-> s.numSaved + 1,
                             old |-> Floor3(p) ])
           ELSE UniqueFrom(f, ncols, numPoints, k + 1, s)

\* TrackVis.h 168-188: the Unique policy
Unique(f, ncols, numPoints) ==
  UniqueFrom(f, ncols, numPoints, 0, [ tmp |-> <<>>, numSaved |-> 0, old |-> <<0, 0, 0>> ])

\* TrackVis.h 189-199: every point
All(f, ncols, numPoints) ==
  [ numSaved |-> numPoints,
    tmp |-> [ k \in 1..numPoints |-> Emit(ReadPoint(f, ncols, k - 1)) ] ]

\* TrackVis.h 154-199: numSaved and tmp for the policy saveMethod
Reduce(f, ncols, numPoints, saveMethod) ==
  IF saveMethod = TRACKVIS_SAVE_HALF THEN Half(f, ncols, numPoints)
  ELSE IF saveMethod = TRACKVIS_SAVE_UNIQUE THEN Unique(f, ncols, numPoints)
  ELSE All(f, ncols, numPoints)

\* TrackVis.h 201-211: the record the two fwrite calls put behind the file:
\* the int32 numSaved, then the 3*Len(tmp) floats of tmp
Written(d, r) ==
  [ d EXCEPT !.records = @ + 1, !.numSaved = r.numSaved, !.last = r.tmp ]

\* LENGTHs(i)-1 in unsigned int: 0 - 1 wraps to 4294967295, which the model
\* checker's 32-bit integers cannot hold; Wrapped stands for it, and like it
\* is larger than every length and every minLength.
Wrapped == 100000000

UDec(len) == IF len >= 1 THEN len - 1 ELSE Wrapped

\* streamline.h 182-184: the global filter
LengthOk(len, stepSize, pixdim1, minLength) ==
  UDec(len) * stepSize * pixdim1 >= minLength

\* a mutated counter that forgets the fiber
CountedNot(n) == n

\* streamline.h 187: tot_fibers++
Counted(n) == n + 1

\* a mutated save loop that passes over every second fiber
NextFiberSkip(k) == k + 2

\* streamline.h 177: i++
NextFiber(k) == k + 1

\* a mutated loop that leaves the tracking at the first append that fails
AfterAppendStop(r) == IF r = 0 THEN "save" ELSE "updateTotal"

\* streamline.h 186: the value append returns is discarded, the save loop
\* goes on
AfterAppend(r) == "save"

\* the value of a mutated append that tests the first fwrite only
AppendRetCountOnly(w) == IF w = "short_count" THEN 1 ELSE 0

\* TrackVis.h 201-213: 1 when either fwrite wrote less than it was asked
\* to, 0 behind the two of them
AppendRet(w) == IF w = "ok" THEN 0 ELSE 1

\* the outcomes of the two fwrite calls of append the model draws
WriteOutcomes == IF writeFails < MaxWriteFail THEN {"ok", "short_count", "short_data"} ELSE {"ok"}

\* streamline.h 177-193 with TrackVis.h 142-214: one turn of the loop that
\* saves the fibers of a voxel.  A fiber that passes the filter is appended
\* with the Unique policy and counted, whatever append returns.  After the
\* last fiber the raster loop goes on.  fwrite on the NULL handle that a
\* failed create leaves behind may end the process or just fail.
Save ==
  /\ pc = "save"
  /\ IF ~(i < foundAtXYZ)
     THEN /\ x' = NextVoxel[1] /\ y' = NextVoxel[2] /\ z' = NextVoxel[3]
          /\ pc' = "voxel"
          /\ UNCHANGED << status, i, tot_fibers, fileVars, calls, rets >>
     ELSE IF ~LengthOk(LENGTHs[i], CONFIG.stepSize, niiDIR.pixdim[1], CONFIG.minLength)
     THEN /\ i' = NextFiber(i)
          /\ pc' = "save"
          /\ UNCHANGED << status, x, y, z, tot_fibers, fileVars, calls, rets >>
     ELSE /\ UNCHANGED << x, y, z, TRK >>
          /\ calls' = [ calls EXCEPT !.append = @ + 1, !.saveMethod = TRACKVIS_SAVE_UNIQUE ]
          /\ IF LENGTHs[i] > maxSteps
             THEN /\ rets' = [ rets EXCEPT !.append = 0 ]
                  /\ i' = NextFiber(i) /\ tot_fibers' = Counted(tot_fibers)
                  /\ pc' = AfterAppend(rets'.append)
                  /\ UNCHANGED << status, disk, writeFails >>
             ELSE IF TRK.fp = "NULL"
             THEN \/ Crash /\ UNCHANGED << i, tot_fibers, disk, writeFails, rets >>
                  \/ /\ rets' = [ rets EXCEPT !.append = AppendRet("short_count") ]
                     /\ i' = NextFiber(i) /\ tot_fibers' = Counted(tot_fibers)
                     /\ pc' = AfterAppend(rets'.append)
                     /\ UNCHANGED << status, disk, writeFails >>
             ELSE \E w \in WriteOutcomes :
                    /\ IF w = "ok"
                       THEN /\ \E r \in { Reduce(FIBERs[i], CONFIG.maxLength, LENGTHs[i],
                                                  calls'.saveMethod) } :
                                 disk' = Written(disk, r)
                            /\ UNCHANGED writeFails
                       ELSE /\ disk' = [ disk EXCEPT !.torn = @ + 1 ]
                            /\ writeFails' = writeFails + 1
                    /\ rets' = [ rets EXCEPT !.append = AppendRet(w) ]
                    /\ i' = NextFiber(i) /\ tot_fibers' = Counted(tot_fibers)
                    /\ pc' = AfterAppend(rets'.append)
                    /\ UNCHANGED status
  /\ UNCHANGED << inputVars, trackerVars, foundAtXYZ >>

\* TrackVis.h 21-45: the members of TrackVis_header in the order of their
\* declaration, with size and alignment in bytes
HdrLayout ==
  << [ name |-> "id_string", size |-> 6, align |-> 1 ],
     [ name |-> "dim", size |-> 6, align |-> 2 ],
     [ name |-> "voxel_size", size |-> 12, align |-> 4 ],
     [ name |-> "origin", size |-> 12, align |-> 4 ],
     [ name |-> "n_scalars", size |-> 2, align |-> 2 ],
     [ name |-> "scalar_name", size |-> 200, align |-> 1 ],
     [ name |-> "n_properties", size |-> 2, align |-> 2 ],
     [ name |-> "property_name", size |-> 200, align |-> 1 ],
     [ name |-> "reserved", size |-> 508, align |-> 1 ],
     [ name |-> "voxel_order", size |-> 4, align |-> 1 ],
     [ name |-> "pad2", size |-> 4, align |-> 1 ],
     [ name |-> "image_orientation_patient", size |-> 24, align |-> 4 ],
     [ name |-> "pad1", size |-> 2, align |-> 1 ],
     [ name |-> "invert_x", size |-> 1, align |-> 1 ],
     [ name |-> "invert_y", size |-> 1, align |-> 1 ],
     [ name |-> "invert_z", size |-> 1, align |-> 1 ],
     [ name |-> "swap_xy", size |-> 1, align |-> 1 ],
     [ name |-> "swap_yz", size |-> 1, align |-> 1 ],
     [ name |-> "swap_zx", size |-> 1, align |-> 1 ],
     [ name |-> "n_count", size |-> 4, align |-> 4 ],
     [ name |-> "version", size |-> 4, align |-> 4 ],
     [ name |-> "hdr_size", size |-> 4, align |-> 4 ] >>

RoundUp(n, a) == ((n + a - 1) \div a) * a

\* the byte offset the compiler gives member k of the header
FieldOffset[k \in 1..Len(HdrLayout)] ==
  IF k = 1 THEN 0
  ELSE RoundUp(FieldOffset[k - 1] + HdrLayout[k - 1].size, HdrLayout[k].align)

FieldAt(name) == CHOOSE k \in 1..Len(HdrLayout) : HdrLayout[k].name = name

\* n bytes written at pos are exactly the member / reach into the member
Covers(name, pos, n) ==
  FieldOffset[FieldAt(name)] = pos /\ HdrLayout[FieldAt(name)].size = n

Touches(name, pos, n) ==
  /\ FieldOffset[FieldAt(name)] < pos + n
  /\ pos < FieldOffset[FieldAt(name)] + HdrLayout[FieldAt(name)].size

\* TrackVis.h 116: the bytes of the header create writes
HdrBytes == 1000

\* a mutated seek that lands on the member after n_count
SeekPosNext(size) == size - 8

\* TrackVis.h 222: fseek(fp, 1000-12, SEEK_SET)
SeekPos(size) == size - 12

\* TrackVis.h 222-223: what 4 bytes of an int written at pos leave in the
\* header on disk
Patched(d, pos, n) ==
  [ d EXCEPT
      !.n_count = IF Covers("n_count", pos, 4) THEN n
                  ELSE IF Touches("n_count", pos, 4) THEN -1 ELSE @,
      !.dim = IF Touches("dim", pos, 4) THEN <<-1, -1, -1>> ELSE @,
      !.voxel_size = IF Touches("voxel_size", pos, 4) THEN <<-1, -1, -1>> ELSE @,
      !.clobbered = @ \/ \E k \in 1..Len(HdrLayout) :
                            /\ HdrLayout[k].name # "n_count"
                            /\ Touches(HdrLayout[k].name, pos, 4) ]

\* TrackVis.h 128-136: open reads the first 1000 bytes into hdr; what the
\* reader then finds in the members the store sets
ReadHdr(d) ==
  IF d.exists
  THEN [ dim |-> d.dim, voxel_size |-> d.voxel_size, n_count |-> d.n_count ]
  ELSE [ dim |-> <<0, 0, 0>>, voxel_size |-> <<0, 0, 0>>, n_count |-> -1 ]

\* TrackVis.h 220-224 called from streamline.h 198
UpdateTotal ==
  /\ pc = "updateTotal"
  /\ calls' = [ calls EXCEPT !.updateTotal = @ + 1, !.total = tot_fibers ]
  /\ IF TRK.fp = "NULL"
     THEN /\ UNCHANGED disk
          /\ Crash \/ (pc' = "close" /\ UNCHANGED status)
     ELSE /\ disk' = Patched(disk, SeekPos(HdrBytes), tot_fibers)
          /\ pc' = "close" /\ UNCHANGED status
  /\ UNCHANGED << inputVars, trackerVars, loopVars, TRK, writeFails, rets >>

\* the object after a mutated close that leaves fp as it was
AfterCloseKeepsFp(t) == t

\* TrackVis.h 239: fp = NULL
AfterClose(t) == [ t EXCEPT !.fp = "NULL" ]

\* TrackVis.h 236-240 called from streamline.h 199
Close ==
  /\ pc = "close"
  /\ calls' = [ calls EXCEPT !.fclose = @ + 1 ]
  /\ TRK' = AfterClose(TRK)
  /\ IF TRK.fp = "NULL"
     THEN Crash \/ (pc' = "return" /\ UNCHANGED status)
     ELSE pc' = "return" /\ UNCHANGED status
  /\ UNCHANGED << inputVars, trackerVars, loopVars, disk, writeFails, rets >>

\* streamline.h 201 with TrackVis.h 74: doTracking returns tot_fibers; the
\* destructor of TRK_file closes a handle that is still open.
Return ==
  /\ pc = "return"
  /\ rets' = [ rets EXCEPT !.doTracking = tot_fibers ]
  /\ IF TRK.fp # "NULL"
     THEN /\ calls' = [ calls EXCEPT !.fclose = @ + 1 ]
          /\ TRK' = [ TRK EXCEPT !.fp = "NULL" ]
     ELSE UNCHANGED << calls, TRK >>
  /\ pc' = "mainEnd"
  /\ UNCHANGED << status, inputVars, trackerVars, loopVars, disk, writeFails >>

\* main.cxx 194-199
MainEnd ==
  /\ pc = "mainEnd"
  /\ Exit(0)
  /\ UNCHANGED << inputVars, trackerVars, loopVars, fileVars, calls, rets >>

Next ==
  \/ MainCheck
  \/ ReadDIR
  \/ ReadMASK
  \/ ReadSEED
  \/ SetConfig
  \/ SetWhiteMatterMask
  \/ SetSeedMask
  \/ \E canOpen \in BOOLEAN : Create(canOpen)
  \/ Voxel
  \/ Seed
  \/ SeedDir
  \/ Step
  \/ EndPass
  \/ Save
  \/ UpdateTotal
  \/ Close
  \/ Return
  \/ MainEnd

Spec == Init /\ [][Next]_vars

\* the single thread runs as long as it has a next statement
FairSpec == Init /\ [][Next]_vars /\ WF_vars(Next)

\* ------------------------------------------------- the straight-line run
\* A 3x3x3 direction field of 1 mm voxels whose only record with a fraction
\* above zero is (1,0,0) with fraction 1, a mask of the same grid that is 1
\* everywhere, no seed mask, and the command line
\* --seeds 1 --stepSize 1 --maxLength 10 --angle 45 --minLength 0 --vf 0.
G27dim == <<3, 3, 3>>

StraightFiles ==
  [ dir |-> { MkDir(G27dim, G1pix, [ v \in 1..NVox(G27dim) |-> VoxX ]) },
    wm |-> { MkMask(G27dim, G1pix, [ v \in 1..NVox(G27dim) |-> 1 ]) },
    seed |-> {} ]

StraightConfig ==
  [ seeds |-> 1, minLength |-> 0, maxLength |-> 10, stepSize |-> 1,
    volFracThr |-> 0, maxAngle |-> 45 ]

StraightInit ==
  Start({ [ a \in {"dir", "wm", "out", "seed"} |-> a # "seed" ] },
        { StraightConfig }, StraightFiles)

StraightSpec == StraightInit /\ [][Next]_vars

\* ------------------------------------------------ the run over equal records
\* Direction fields of two 1 mm voxels whose voxels hold two opposite
\* directions with equal fractions (their dot products with any incoming
\* direction are equal in size), under the base configuration.
TieFiles ==
  [ dir |-> { MkDir(G1dim, G1pix, <<VoxT, VoxT>>), MkDir(G1dim, G1pix, <<VoxB, VoxA>>) },
    wm |-> { MkMask(G1dim, G1pix, <<1, 1>>) },
    seed |-> {} ]

TieInit ==
  Start({ [ a \in {"dir", "wm", "out", "seed"} |-> a # "seed" ] },
        { BaseConfig }, TieFiles)

TieSpec == TieInit /\ [][Next]_vars

\* ---------------------------------------------------- the run over a 2x2x2 grid
\* A 2x2x2 direction field of 1 mm voxels that all hold (1,0,0) with
\* fraction 1, a full mask, and, when --seed is given, a seed mask that is 1
\* at the voxels of linear index 1, 2, 4 and 7; the base configuration.
G8dim == <<2, 2, 2>>

RasterFiles ==
  [ dir |-> { MkDir(G8dim, G1pix, [ v \in 1..NVox(G8dim) |-> VoxX ]) },
    wm |-> { MkMask(G8dim, G1pix, [ v \in 1..NVox(G8dim) |-> 1 ]) },
    seed |-> { MkMask(G8dim, G1pix,
                      [ v \in 1..NVox(G8dim) |-> IF v \in {2, 3, 5, 8} THEN 1 ELSE 0 ]) } ]

RasterInit ==
  Start({ f \in [ {"dir", "wm", "out", "seed"} -> BOOLEAN ] : f["dir"] /\ f["wm"] /\ f["out"] },
        { BaseConfig }, RasterFiles)

RasterSpec == RasterInit /\ [][Next]_vars

\* ------------------------------------------------------- append on its own
\* append applied to a fiber of 1..MaxLen points drawn from Points, under each
\* of the three policies, on a file that create has opened.
Points == { <<0, 0, 0>>, <<3, 0, 0>>, <<5, 0, 0>>, <<5, 5, 0>> }

\* the fiber buffer of ncols columns that holds the points pts
MkFiber(pts, ncols) ==
  [ o \in 0..(3 * ncols) |->
      IF o < 3 * ncols /\ (o % ncols) < Len(pts)
      THEN pts[(o % ncols) + 1][(o \div ncols) + 1] ELSE Uninit ]

AppendStart(extra) ==
  /\ pc = "append"
  /\ status = -1
  /\ vm = [ a \in {"dir", "wm", "out", "seed"} |-> a # "seed" ]
  /\ files = AllFiles
  /\ CONFIG = BaseConfig
  /\ niiDIR = NoVol /\ niiMASK = NoVol /\ niiSEED = NoVol
  /\ seedSet = FALSE /\ maskSet = FALSE /\ warned = FALSE
  /\ ANGLE_thr = CosScaled(BaseConfig.maxAngle)
  /\ \E n \in 1..BaseConfig.maxLength : \E pts \in [ 1..n -> Points ] :
       /\ FIBERs = [ f \in {0} |-> MkFiber(pts, BaseConfig.maxLength) ]
       /\ \E numPoints \in {n} \cup extra : LENGTHs = [ f \in {0} |-> numPoints ]
  /\ tmp = <<>>
  /\ COORD_seed = dO /\ COORD = dO /\ dir = dO
  /\ VOXEL_wm = dO /\ VOXEL_dsi = dO
  /\ found = 0 /\ step = 0 /\ dirFound = FALSE
  /\ seedNum = 0 /\ seedDir = 0 /\ semi_step = 0
  /\ x = 0 /\ y = 0 /\ z = 0
  /\ foundAtXYZ = 1 /\ i = 0 /\ tot_fibers = 0
  /\ TRK = [ fp |-> "open", created |-> 1 ]
  /\ disk = [ NoFile EXCEPT !.exists = TRUE ]
  /\ writeFails = 0
  /\ seedUse = NoUse
  /\ pick = NoPick
  /\ colWritten = -1
  /\ \E m \in {TRACKVIS_SAVE_ALL, TRACKVIS_SAVE_HALF, TRACKVIS_SAVE_UNIQUE} :
       calls = [ NoCalls EXCEPT !.create = 1, !.saveMethod = m ]
  /\ rets = NoRets

\* the fibers append is called with: numPoints is the number of points the
\* buffer holds
AppendInit == AppendStart({})

\* TrackVis.h 142-214: append(&FIBERs(i), LENGTHs(i), saveMethod) with the
\* two fwrite calls ending as one of W
AppendOn(W) ==
  /\ pc = "append"
  /\ calls' = [ calls EXCEPT !.append = @ + 1 ]
  /\ IF LENGTHs[i] > maxSteps
     THEN /\ rets' = [ rets EXCEPT !.append = 0 ]
          /\ UNCHANGED << disk, writeFails >>
     ELSE \E w \in W :
            /\ IF w = "ok"
               THEN /\ \E r \in { Reduce(FIBERs[i], CONFIG.maxLength, LENGTHs[i],
                                          calls.saveMethod) } :
                         disk' = Written(disk, r)
                    /\ UNCHANGED writeFails
               ELSE /\ disk' = [ disk EXCEPT !.torn = @ + 1 ]
                    /\ writeFails' = writeFails + 1
            /\ rets' = [ rets EXCEPT !.append = AppendRet(w) ]
  /\ pc' = "appended"
  /\ UNCHANGED << status, inputVars, trackerVars, loopVars, TRK >>

\* append with both fwrite calls succeeding
AppendCall == AppendOn({"ok"})

AppendSpec == AppendInit /\ [][AppendCall]_vars

\* ------------------------------------------- the program and append on its own
\* The runs of the program together with the calls of append on its own,
\* where fwrite may come back short and numPoints may be maxSteps + 1, a
\* length append turns down before it reads the buffer.
CallInit == Init \/ AppendStart({maxSteps + 1})

AppendAny == AppendOn(WriteOutcomes)

CallNext == Next \/ AppendAny

CallSpec == CallInit /\ [][CallNext]_vars

\* ------------------------------------------------------------------ claims
Tracking == pc \in {"seed", "seedDir", "step", "endPass"}

\* the three records pickBestDir found in the voxel of its last call, as
\* << fraction, direction >> (reads inside the allocation only)
RecordAt(k) ==
  << DirRead(niiDIR, VOXEL_dsi, k * 4, 0),
     << DirRead(niiDIR, VOXEL_dsi, k * 4 + 1, 0), DirRead(niiDIR, VOXEL_dsi, k * 4 + 2, 0),
        DirRead(niiDIR, VOXEL_dsi, k * 4 + 3, 0) >> >>

\* C1: neither the seed-direction gate of trackFromXYZ nor pickBestDir ever
\* uses a candidate whose volume fraction is <= volFracThr: the record a
\* fiber was started along, and the record pickBestDir returned as the next
\* direction, both hold a fraction above the threshold.
C1_VolFracRespected ==
  /\ seedUse.used => seedUse.vf > CONFIG.volFracThr
  /\ (pick.called /\ pick.ret) => pick.vf > CONFIG.volFracThr

\* C1 happens: pickBestDir returned a direction although a record of the
\* voxel with a fraction equal to a positive threshold is better aligned
\* with the incoming direction.
C1_Witness ==
  /\ pc = "step" /\ pick.called /\ pick.ret
  /\ CONFIG.volFracThr > 0
  /\ \E k \in 0..2 :
       /\ RecordAt(k)[1] = CONFIG.volFracThr
       /\ Abs(Dot(pick.vecIn, RecordAt(k)[2])) > Abs(pick.dot)

\* C2: whenever pickBestDir returns true for the incoming direction d, the
\* record it chose satisfies |d . candidate| > cos(maxAngle), the direction
\* written back has a non-negative dot product with d, and it is the
\* candidate negated exactly when d . candidate < 0.
C2_AngleAndSign ==
  (pick.called /\ pick.ret) =>
    /\ Abs(pick.dot) > CosScaled(CONFIG.maxAngle)
    /\ Dot(pick.vecIn, pick.vecOut) >= 0
    /\ pick.vecOut = (IF pick.dot < 0 THEN Sub(dO, pick.cand) ELSE pick.cand)

\* C2 happens: pickBestDir chose a record that points backward and wrote
\* back its negation.
C2_Witness ==
  /\ pick.called /\ pick.ret
  /\ pick.dot < 0
  /\ pick.vecOut = Sub(dO, pick.cand) /\ pick.vecOut # pick.cand

\* C3: for every valid maxLength, every fiber trackFromXYZ returns has a
\* recorded length LENGTHs(i) <= maxLength, and no point is written at a
\* column >= maxLength of the fiber buffer.
C3_LengthWithinMax ==
  /\ colWritten < CONFIG.maxLength \/ colWritten = -1
  /\ pc = "save" => \A k \in 0..(foundAtXYZ - 1) : LENGTHs[k] <= CONFIG.maxLength

\* the run is over: the process has died at an access outside an array, or
\* main has exited, and if doTracking was entered it has returned
Done ==
  \/ pc = "crashed"
  \/ pc = "exit" /\ (TRK.created # -1 => rets.doTracking >= 0)

\* C4: growth always terminates.  A turn of the stepping loop that stays in
\* the loop increases step by one and keeps it within maxLength, so every
\* pass ends; every run that enters doTracking gets out of every call of
\* trackFromXYZ and of doTracking itself (or the process has died on the way).
C4_Terminates ==
  /\ [][(pc = "step" /\ pc' = "step") => (step' = step + 1 /\ step' <= CONFIG.maxLength)]_vars
  /\ <>Done

\* C4 happens: a pass has appended points and stands at the head of the loop
\* inside the mask with step = maxLength, so the bound is what ends it.
C4_Witness ==
  /\ pc = "step"
  /\ step > 2 /\ step = CONFIG.maxLength
  /\ ~OutsideMask(VoxelOf(COORD, niiMASK.pixdim), niiMASK)

\* C5: the global length filter rejects exactly the fibers with
\* (stepCount-1) * stepSize < minLength and persists all others, whatever the
\* voxel size of the direction field is.
C5_FilterByLength ==
  [][(pc = "save" /\ i < foundAtXYZ /\ pc' # "crashed") =>
       ((tot_fibers' = tot_fibers + 1) <=>
          ((LENGTHs[i] - 1) * CONFIG.stepSize >= CONFIG.minLength))]_vars

\* C6: with the Unique policy append never emits two consecutive points
\* that lie in the same voxel of the white-matter mask.
C6_UniquePerMaskVoxel ==
  \A k \in 1..(Len(disk.last) - 1) :
    VoxelOf(disk.last[k], niiMASK.pixdim) # VoxelOf(disk.last[k + 1], niiMASK.pixdim)

\* C7: what doTracking returns, which is what updateTotal wrote into the
\* header, is the number of records append wrote completely: after a run
\* that created the file, header count = number of records in the file.
C7_CountMatchesRecords ==
  (pc = "mainEnd" /\ disk.exists) =>
    (rets.doTracking = disk.records /\ disk.n_count = disk.records)

\* C8: when create fails, the run aborts at once: no trackFromXYZ, append,
\* updateTotal or close is executed afterwards.
C8_CreateFailureAborts ==
  TRK.created = 0 =>
    /\ ~Tracking /\ pc # "save"
    /\ calls.updateTotal = 0 /\ calls.fclose = 0

\* the table of valid ranges of the Tracking Configuration
InRange(c) ==
  /\ c.maxAngle >= 1 /\ c.maxAngle <= MaxAngleLimit
  /\ c.stepSize > 0 /\ c.stepSize <= StepSizeLimit
  /\ c.minLength >= 0
  /\ c.maxLength >= 1 /\ c.maxLength <= MaxLengthLimit
  /\ c.seeds >= 1 /\ c.seeds <= SeedsLimit
  /\ c.volFracThr >= 0 /\ c.volFracThr <= SCALE

\* C9: a configuration field outside its valid range, or a missing dir, wm
\* or out path, makes main return non-zero before any volume is read, any
\* tracking is done or any output file is created.
C9_BadConfigRejected ==
  (~InRange(CONFIG) \/ ~vm["dir"] \/ ~vm["wm"] \/ ~vm["out"]) =>
    (pc = "main" \/ (pc = "exit" /\ status # 0 /\ niiDIR = NoVol /\ ~disk.exists))

\* C10: a white-matter mask whose voxel size or voxel count differs from the
\* direction field on some axis is fatal: tracking does not start with it.
C10_MaskMismatchFatal ==
  (maskSet /\ GeometryDiffers(niiMASK, niiDIR)) =>
    (pc \in {"setSeedMask", "exit"} /\ TRK.created = -1)

\* C11: a seed mask whose voxel size or voxel count differs from the
\* direction field on some axis stops the process in setSeedMask with a
\* non-zero status, before create is reached: no output file exists.
C11_SeedMismatchFatal ==
  (seedSet /\ (niiSEED.dim # niiDIR.dim \/ niiSEED.pixdim # niiDIR.pixdim)) =>
    (pc = "exit" /\ status # 0 /\ TRK.created = -1 /\ ~disk.exists)

\* C11 happens: setSeedMask has taken a seed mask with the field of view of
\* the direction field but another grid, and the process has exited.
C11_Witness ==
  /\ seedSet /\ pc = "exit" /\ status = 1
  /\ niiSEED.dim # niiDIR.dim
  /\ ~FovDiffers(niiSEED, niiDIR)

\* C12: in every run of doTracking the operations of the store come in the
\* order create, append (any number), updateTotal, close.  append is called
\* only after the one create and before updateTotal and close; updateTotal
\* is called only after create and before close; close is called only after
\* updateTotal.  A run that returns has called create, updateTotal and close
\* exactly once each, and updateTotal got the number of fibers that passed
\* the filter, which is the number of append calls.
C12_StoreOrder ==
  /\ [][/\ calls'.create # calls.create =>
             (calls.create = 0 /\ calls.append = 0 /\ calls.updateTotal = 0 /\ calls.fclose = 0)
        /\ calls'.append # calls.append =>
             (calls.create = 1 /\ calls.updateTotal = 0 /\ calls.fclose = 0)
        /\ calls'.updateTotal # calls.updateTotal =>
             (calls.create = 1 /\ calls.updateTotal = 0 /\ calls.fclose = 0
              /\ calls'.total = calls.append)
        /\ calls'.fclose # calls.fclose =>
             (calls.updateTotal = 1 /\ calls.fclose = 0)]_vars
  /\ [](rets.doTracking # -1 =>
          (calls.create = 1 /\ calls.updateTotal = 1 /\ calls.fclose = 1
           /\ calls.total = calls.append /\ rets.doTracking = calls.total))

\* C12 happens: doTracking has returned after two or more appends.
C12_Witness ==
  /\ rets.doTracking # -1
  /\ calls.append >= 2 /\ calls.total = calls.append

\* C13: round trip of the header.  Once a created file has been closed, a
\* reader of its header finds the dims and the voxel size create was given
\* and the count updateTotal was given, and updateTotal has overwritten no
\* other member: its 4 bytes at offset 988 are exactly n_count.
C13_HeaderRoundTrip ==
  /\ Covers("n_count", 988, 4)
  /\ FieldOffset[Len(HdrLayout)] + HdrLayout[Len(HdrLayout)].size = HdrBytes
  /\ (TRK.created = 1 /\ calls.fclose = 1) =>
       /\ ReadHdr(disk).dim = niiMASK.dim
       /\ ReadHdr(disk).voxel_size = niiMASK.pixdim
       /\ ReadHdr(disk).n_count = calls.total
       /\ ~disk.clobbered

\* C13 happens: a file created for a 2 mm grid has been closed with a
\* count above zero in its header.
C13_Witness ==
  /\ TRK.created = 1 /\ calls.fclose = 1
  /\ niiMASK.pixdim = G2pix
  /\ calls.total > 0 /\ disk.n_count = calls.total

\* the points of fiber k share y and z with its seed point
AlongX(k) ==
  \A c \in 0..(LENGTHs[k] - 1) :
    /\ ReadPoint(FIBERs[k], CONFIG.maxLength, c)[2] = COORD_seed[2]
    /\ ReadPoint(FIBERs[k], CONFIG.maxLength, c)[3] = COORD_seed[3]

\* C14: the straight-line run.  trackFromXYZ returns exactly one fiber for
\* every voxel; the fiber is a straight line along x; each pass ends because
\* the point has left the mask (not because of maxLength or of a missing
\* direction); and when the file could be created and no write failed, the
\* run persists one fiber per voxel, 27 in all, and returns 27.
C14_StraightLines ==
  /\ pc = "save" => (foundAtXYZ = 1 /\ AlongX(0))
  /\ pc = "endPass" =>
       (OutsideMask(VoxelOf(COORD, niiMASK.pixdim), niiMASK) /\ step < CONFIG.maxLength)
  /\ \A k \in 1..Len(disk.last) :
       disk.last[k][2] = disk.last[1][2] /\ disk.last[k][3] = disk.last[1][3]
  /\ (pc = "mainEnd" /\ TRK.created = 1 /\ writeFails = 0) =>
       (disk.records = 27 /\ rets.doTracking = 27 /\ disk.n_count = 27)

\* C14 happens: the straight-line run has ended with all 27 fibers in the
\* file, the last one with its 5 points.
C14_Witness ==
  /\ pc = "mainEnd" /\ TRK.created = 1 /\ writeFails = 0
  /\ niiDIR.dim = G27dim /\ CONFIG = StraightConfig
  /\ disk.records = NVox(G27dim) /\ Len(disk.last) = 5

\* every volume fraction of the direction field is 0 (records k = 0, 4, 8)
ZeroField(vol) ==
  /\ vol # NoVol
  /\ \A o \in DOMAIN vol.img : (o \div NVox(vol.dim)) % 4 = 0 => vol.img[o] = 0

\* C15: with a direction field whose volume fractions are all 0 and
\* volFracThr = 0, trackFromXYZ returns 0 for every seed voxel, append is
\* never called, nothing is persisted and doTracking returns 0.
C15_ZeroFieldNoFibers ==
  (ZeroField(niiDIR) /\ CONFIG.volFracThr = 0) =>
    /\ found = 0 /\ foundAtXYZ = 0
    /\ calls.append = 0 /\ disk.records = 0
    /\ rets.doTracking \in {-1, 0}
    /\ calls.updateTotal = 1 => calls.total = 0

\* C15 happens: a run over an all-zero field with threshold 0 has visited
\* its seed voxels and returned 0 with the file created.
C15_Witness ==
  /\ ZeroField(niiDIR) /\ CONFIG.volFracThr = 0
  /\ pc = "mainEnd" /\ TRK.created = 1 /\ rets.doTracking = 0 /\ disk.n_count = 0

\* C16: a failed write inside append does not abort the run.  The step in
\* which fwrite comes up short leaves the process running, returns 1 from
\* append and goes on with the next fiber of the same voxel; the save loop
\* and the raster loop are left only at their bounds; and a doTracking that
\* has returned after a failed write has called updateTotal and close.
C16_WriteFailureGoesOn ==
  /\ [][ /\ writeFails' # writeFails =>
             /\ rets'.append = 1 /\ pc' = "save" /\ i' = i + 1
             /\ status' = status /\ foundAtXYZ' = foundAtXYZ
             /\ << x', y', z' >> = << x, y, z >>
             /\ calls'.append = calls.append + 1
         /\ (pc = "save" /\ pc' = "voxel") => ~(i < foundAtXYZ)
         /\ (pc = "save" /\ pc' \notin {"save", "voxel"}) => pc' = "crashed"
         /\ pc' = "updateTotal" => (pc = "voxel" /\ ~(z < niiDIR.dim[3])) ]_vars
  /\ [](writeFails > 0 /\ rets.doTracking # -1 =>
          calls.updateTotal = 1 /\ calls.fclose = 1)

\* C16 happens: a run in which a write failed on a fiber that was not the
\* last has appended again afterwards and has ended through updateTotal
\* and close.
C16_Witness ==
  /\ pc = "mainEnd" /\ writeFails > 0 /\ disk.records > 0 /\ rets.append = 0
  /\ calls.append = disk.records + writeFails
  /\ calls.updateTotal = 1 /\ calls.fclose = 1

\* C17: for a seed voxel the seed mask does not exclude, trackFromXYZ
\* attempts all CONFIG.seeds random points and, for each, all 3 ranked
\* directions: it returns only when no later random point is left to
\* attempt, and the loop over the directions of a point is left only after
\* the third.
C17_AllSeedsAttempted ==
  [][ /\ (pc = "seed" /\ pc' = "save") => ~(seedNum + 1 < CONFIG.seeds)
      /\ (pc = "seedDir" /\ pc' = "seed") => (seedDir = 3 /\ seedNum' = seedNum + 1) ]_vars

\* C18: a random seed point that maps outside the mask grid or to a mask
\* voxel of value 0 produces no fiber: the step that draws such a point
\* leaves found as it was, enters none of the 3 directions and stores
\* nothing in the fiber buffers.
C18_OutsideMaskNoFiber ==
  [][ (pc = "seed" /\ seedNum < CONFIG.seeds) =>
        LET w == VoxelOf(COORD_seed', niiMASK.pixdim)
        IN  (\/ \E a \in 1..3 : w[a] < 0 \/ w[a] >= niiMASK.dim[a]
             \/ niiMASK.img[Offset(niiMASK.dim, w[1], w[2], w[3], 0)] = 0) =>
              /\ pc' # "seedDir"
              /\ found' = found /\ foundAtXYZ' = found
              /\ FIBERs' = FIBERs /\ LENGTHs' = LENGTHs ]_vars

\* C18 happens: trackFromXYZ has returned 0 fibers for a voxel whose seed
\* point fell on a mask voxel of value 0 inside the grid.
C18_Witness ==
  /\ pc = "save" /\ foundAtXYZ = 0 /\ maskSet
  /\ VOXEL_wm[1] < niiMASK.dim[1]
  /\ niiMASK.img[Offset(niiMASK.dim, VOXEL_wm[1], VOXEL_wm[2], VOXEL_wm[3], 0)] = 0
  /\ ~ZeroField(niiDIR) /\ CONFIG.seeds > 0

\* C19: at the seed voxel a candidate whose volume fraction is at least
\* volFracThr is tracked (the stepping loop is entered with its direction),
\* and a candidate is skipped only when its fraction is below volFracThr.
C19_SeedGateAtLeast ==
  [][ (pc = "seedDir" /\ seedDir < 3) =>
        LET vf == DirRead(niiDIR, << x, y, z >>, seedDir * 4, 0)
        IN  /\ vf >= CONFIG.volFracThr => (seedUse'.used /\ seedUse'.vf = vf /\ pc' # "seedDir")
            /\ pc' = "seedDir" => vf < CONFIG.volFracThr ]_vars

\* record k of the voxel of the last call qualifies: its fraction is above
\* volFracThr and its dot product with the incoming direction is, in size,
\* above the cosine of maxAngle
Qualifies(k) ==
  /\ RecordAt(k)[1] > CONFIG.volFracThr
  /\ Abs(Dot(pick.vecIn, RecordAt(k)[2])) > CosScaled(CONFIG.maxAngle)

\* C20: pickBestDir returns false exactly when no record qualifies;
\* otherwise the record it selects qualifies, no qualifying record has a
\* larger |dot|, and no qualifying record of a lower index has an equal
\* |dot| (of equal ones the first wins).
C20_LargestDotFirstWins ==
  (pick.called /\ ~ReadsOutside(niiDIR, VOXEL_dsi, CONFIG.volFracThr)) =>
    /\ pick.ret <=> \E k \in 0..2 : Qualifies(k)
    /\ pick.ret =>
         \E k \in 0..2 :
           /\ Qualifies(k)
           /\ pick.vf = RecordAt(k)[1] /\ pick.cand = RecordAt(k)[2]
           /\ pick.dot = Dot(pick.vecIn, RecordAt(k)[2])
           /\ \A j \in 0..2 :
                Qualifies(j) => Abs(Dot(pick.vecIn, RecordAt(j)[2])) <= Abs(pick.dot)
           /\ \A j \in 0..(k - 1) :
                Qualifies(j) => Abs(Dot(pick.vecIn, RecordAt(j)[2])) < Abs(pick.dot)

\* C20 happens: two records of different directions qualified with the same
\* |dot|, neither was the first record of the voxel, and pickBestDir
\* selected the one of the lower index.
C20_Witness ==
  /\ pick.called /\ pick.ret
  /\ ~Qualifies(0) /\ Qualifies(1) /\ Qualifies(2)
  /\ RecordAt(1)[2] # RecordAt(2)[2]
  /\ Abs(Dot(pick.vecIn, RecordAt(1)[2])) = Abs(Dot(pick.vecIn, RecordAt(2)[2]))
  /\ pick.cand = RecordAt(1)[2]

\* C21: the direction field is never read at a voxel outside its grid:
\* the voxel the stepping loop hands to pickBestDir lies inside the grid of
\* the direction field on all three axes, whatever mask is in use.
C21_DirReadInGrid ==
  niiDIR # NoVol =>
    \A a \in 1..3 : 0 <= VOXEL_dsi[a] /\ VOXEL_dsi[a] < niiDIR.dim[a]

\* C22: a finished fiber is one polyline through the seed.  The end of the
\* forward pass puts the points generated so far in reverse order, so that
\* the seed point is the last of them, and restarts at the seed point with
\* the initial direction negated; the backward pass only appends behind
\* them; and the fiber whose length is recorded holds the seed point.
C22_PolylineThroughSeed ==
  [][ /\ (pc = "endPass" /\ semi_step = 0) =>
           /\ \A c \in 0..(step - 1) :
                ReadPoint(FIBERs'[found], CONFIG.maxLength, c) =
                  ReadPoint(FIBERs[found], CONFIG.maxLength, step - 1 - c)
           /\ ReadPoint(FIBERs'[found], CONFIG.maxLength, step - 1) = COORD_seed
           /\ COORD' = COORD_seed
           /\ dir' = Sub(dO, PassDir(FIBERs[found], CONFIG.maxLength, 2))
      /\ (pc = "step" /\ semi_step = 1 /\ pc' = "step") =>
           /\ \A c \in 0..(step - 1) :
                ReadPoint(FIBERs'[found], CONFIG.maxLength, c) =
                  ReadPoint(FIBERs[found], CONFIG.maxLength, c)
           /\ ReadPoint(FIBERs'[found], CONFIG.maxLength, step) = COORD'
           /\ step' = step + 1
      /\ (pc = "endPass" /\ semi_step = 1) =>
           /\ LENGTHs'[found] = step /\ FIBERs' = FIBERs
           /\ \E c \in 0..(step - 1) :
                ReadPoint(FIBERs[found], CONFIG.maxLength, c) = COORD_seed ]_vars

\* C23: doTracking visits the voxels of the direction field once each, in
\* raster order with x innermost and z outermost: it starts at (0,0,0),
\* every move goes to the voxel whose linear index x + dim1*(y + dim2*z) is
\* one larger, a move is made only by the skip of the seed mask or after
\* the fibers of the voxel are saved, and the loop is left only behind the
\* last voxel.  trackFromXYZ is entered for a voxel exactly when no seed
\* mask is set or the seed mask is non-zero there.
C23_RasterOrder ==
  /\ [][ /\ << x', y', z' >> # << x, y, z >> =>
             /\ pc \in {"voxel", "save"} /\ pc' = "voxel"
             /\ x' \in 0..(niiDIR.dim[1] - 1) /\ y' \in 0..(niiDIR.dim[2] - 1)
             /\ Offset(niiDIR.dim, x', y', z', 0) = Offset(niiDIR.dim, x, y, z, 0) + 1
         /\ (pc = "voxel" /\ z < niiDIR.dim[3]) =>
             /\ pc' = "seed" <=>
                  (~seedSet \/ niiSEED.img[Offset(niiSEED.dim, x, y, z, 0)] # 0)
             /\ pc' # "seed" => << x', y', z' >> # << x, y, z >>
         /\ pc' = "seed" => (pc \in {"voxel", "seedDir"} /\ << x', y', z' >> = << x, y, z >>)
         /\ (pc = "save" /\ pc' = "voxel") => << x', y', z' >> # << x, y, z >>
         /\ pc' = "updateTotal" => << x, y, z >> = << 0, 0, niiDIR.dim[3] >> ]_vars
  /\ [](TRK.created = -1 => << x, y, z >> = << 0, 0, 0 >>)

\* C23 happens: with a seed mask set, the loop has passed voxels the mask
\* excludes and tracked from others, and stands at the start of the second
\* z plane of a grid with more than one row.
C23_Witness ==
  /\ seedSet /\ pc = "voxel" /\ niiDIR.dim[2] > 1
  /\ << x, y, z >> = << 0, 0, 1 >>
  /\ calls.append > 0

\* C24: inside trackFromXYZ found counts the fibers finished so far, at
\* most 3 for each seed point begun, so the count it returns is between 0
\* and 3*seeds; wherever found or i is used as an index into FIBERs or
\* LENGTHs it is below 3*seeds, the size setConfig gave both; and the
\* length of every fiber below the returned count has been set.
C24_FoundWithinArrays ==
  /\ pc \in {"seed", "seedDir", "step", "endPass"} =>
       /\ 0 <= found /\ found <= 3 * seedNum + seedDir /\ found <= 3 * CONFIG.seeds
       /\ \A k \in 0..(found - 1) : LENGTHs[k] # Uninit
  /\ (pc \in {"step", "endPass"} \/ (pc = "seedDir" /\ seedDir < 3)) =>
       /\ found < 3 * CONFIG.seeds
       /\ found \in DOMAIN FIBERs /\ found \in DOMAIN LENGTHs
  /\ pc = "save" =>
       /\ 0 <= foundAtXYZ /\ foundAtXYZ <= 3 * CONFIG.seeds
       /\ \A k \in 0..(foundAtXYZ - 1) :
            k \in DOMAIN FIBERs /\ k \in DOMAIN LENGTHs /\ LENGTHs[k] # Uninit

\* C24 happens: trackFromXYZ has returned the largest count there is,
\* three fibers for each of two seed points.
C24_Witness ==
  /\ pc = "save" /\ CONFIG.seeds = 2 /\ foundAtXYZ = 3 * CONFIG.seeds
  /\ \A k \in 0..(foundAtXYZ - 1) : LENGTHs[k] >= 2

\* C25: for each of the three policies and every fiber of at least one
\* point, the int32 count append writes equals the number of coordinate
\* triples it writes behind it.
C25_CountMatchesTriples ==
  pc = "appended" => (disk.records = 1 /\ disk.numSaved = Len(disk.last))

\* C25 happens: the Half policy has written a fiber with an even number of
\* points, and the count is the ceiling ceil(3/2) + 1 = 3.
C25_Witness ==
  /\ pc = "appended" /\ calls.saveMethod = TRACKVIS_SAVE_HALF
  /\ LENGTHs[0] = 4 /\ disk.numSaved = 3 /\ Len(disk.last) = 3

\* C26: with the Half policy and a fiber of n >= 1 points append emits the
\* points of index n-1, n-3, ... as long as the index is above 0, then the
\* point of index 0: ceil((n-1)/2) + 1 points, the first of them the last
\* point of the fiber and the last of them its first point.
C26_HalfPolicy ==
  (pc = "appended" /\ calls.saveMethod = TRACKVIS_SAVE_HALF) =>
    LET n == LENGTHs[0]
        m == IF (n - 1) % 2 = 0 THEN (n - 1) \div 2 ELSE n \div 2
        P(k) == Add(ReadPoint(FIBERs[0], CONFIG.maxLength, k), TRACKVIS_VOXEL_OFFSET, <<1, 1, 1>>)
    IN  /\ Len(disk.last) = m + 1
        /\ \A j \in 1..m : n + 1 - 2 * j > 0 /\ disk.last[j] = P(n + 1 - 2 * j)
        /\ disk.last[m + 1] = P(0)
        /\ disk.last[1] = P(n - 1)

\* C26 happens: the Half policy has written a fiber of 3 points as its
\* last and its first point, and the two differ.
C26_Witness ==
  /\ pc = "appended" /\ calls.saveMethod = TRACKVIS_SAVE_HALF
  /\ LENGTHs[0] = 3 /\ Len(disk.last) = 2 /\ disk.last[1] # disk.last[2]

\* the columns of fiber 0 at which a run of equal floored coordinates begins
RunStarts ==
  { k \in 0..(LENGTHs[0] - 1) :
      k = 0 \/ Floor3(ReadPoint(FIBERs[0], CONFIG.maxLength, k)) #
                 Floor3(ReadPoint(FIBERs[0], CONFIG.maxLength, k - 1)) }

\* C27: with the Unique policy append emits exactly the first point of each
\* maximal run of consecutive points with the same floored coordinates, in
\* the order of the fiber: one point per run, the first point always.
C27_UniquePolicy ==
  (pc = "appended" /\ calls.saveMethod = TRACKVIS_SAVE_UNIQUE) =>
    /\ Len(disk.last) = Cardinality(RunStarts)
    /\ \A k \in RunStarts :
         disk.last[Cardinality({ m \in RunStarts : m <= k })] =
           Add(ReadPoint(FIBERs[0], CONFIG.maxLength, k), TRACKVIS_VOXEL_OFFSET, <<1, 1, 1>>)

\* C27 happens: the Unique policy has written a fiber of 4 points that
\* leaves a voxel and comes back: three runs, the middle point of the
\* first run dropped.
C27_Witness ==
  /\ pc = "appended" /\ calls.saveMethod = TRACKVIS_SAVE_UNIQUE
  /\ LENGTHs[0] = 4 /\ RunStarts = {0, 2, 3}
  /\ Len(disk.last) = 3 /\ disk.last[1] = disk.last[3]

\* C28: the fibers of a voxel are a function of the voxel, the random draws
\* and the volumes and configuration only.  Stated through what that
\* requires of every step: the direction pickBestDir hands back is the same
\* whatever the memory outside the direction field holds, and the fibers
\* trackFromXYZ returns hold, below their lengths, no cell that this call
\* did not store.
C28_FibersDependOnInputsOnly ==
  [][ /\ (pc = "step" /\ step < CONFIG.maxLength /\ pc' # "crashed" /\
           ~OutsideMask(VoxelOf(COORD, niiMASK.pixdim), niiMASK)) =>
             \A g \in Garbage :
               pick' = pickBestDir(niiDIR, VoxelOf(COORD, niiDIR.pixdim), dir,
                                   CONFIG.volFracThr, ANGLE_thr, g)
      /\ (pc # "save" /\ pc' = "save") =>
             \A k \in 0..(foundAtXYZ' - 1) : \A c \in 0..(LENGTHs'[k] - 1) :
               \A r \in 1..3 : ReadPoint(FIBERs'[k], CONFIG.maxLength, c)[r] # Uninit ]_vars

\* C29: no fiber outlives the iteration of its voxel.  The save loop takes
\* the fibers trackFromXYZ returned one by one, each either appended or
\* dropped by the length filter, and only behind the last of them does the
\* raster loop move on; trackFromXYZ starts with found = 0, every fiber
\* starts at column 0, and its columns are stored one after the other, so
\* the columns read below step (and below LENGTHs(i) when saving) were all
\* stored for this voxel.
C29_NoFiberOutlivesVoxel ==
  [][ /\ (pc = "save" /\ i < foundAtXYZ /\ pc' # "crashed") =>
           /\ i' = i + 1 /\ pc' = "save" /\ << x', y', z' >> = << x, y, z >>
           /\ \/ calls'.append = calls.append + 1
              \/ /\ calls' = calls /\ disk' = disk
                 /\ UDec(LENGTHs[i]) * CONFIG.stepSize * niiDIR.pixdim[1] < CONFIG.minLength
      /\ (pc = "save" /\ pc' = "voxel") => i = foundAtXYZ
      /\ (pc = "voxel" /\ pc' = "seed") => (found' = 0 /\ ~(i < foundAtXYZ))
      /\ (pc # "save" /\ pc' = "save") => (foundAtXYZ' = found /\ i' = 0)
      /\ (pc = "seedDir" /\ pc' = "step") => (colWritten' = 1 /\ step' = 2)
      /\ (pc = "step" /\ pc' = "step") => (colWritten' = step /\ step' = step + 1)
      /\ (pc = "endPass" /\ pc' = "seedDir") => (LENGTHs'[found] = step /\ found' = found + 1) ]_vars

\* C29 happens: tracking of the second voxel starts after the save loop has
\* gone through the three fibers of the first, appending some and dropping
\* one by its length.
C29_Witness ==
  /\ pc = "seed" /\ x = 1 /\ seedNum = 0 /\ found = 0
  /\ foundAtXYZ = 3 /\ i = 3
  /\ calls.append \in {1, 2}

\* C30: a fiber started along a record that passes the gate holds at least
\* 2 points when it is finished: the seed point and, next to it, the point
\* one stepSize along the direction of the record, whether or not that
\* point is inside the mask.  So LENGTHs(i) >= 2 for every fiber handed to
\* the length filter, and LENGTHs(i)-1 does not wrap there.
C30_AtLeastTwoPoints ==
  /\ [][ (pc = "endPass" /\ semi_step = 1) =>
           /\ LENGTHs'[found] >= 2
           /\ \E c \in 1..(step - 1) :
                /\ ReadPoint(FIBERs'[found], CONFIG.maxLength, c) = COORD_seed
                /\ ReadPoint(FIBERs'[found], CONFIG.maxLength, c - 1) =
                     Add(COORD_seed, CONFIG.stepSize,
                         << DirRead(niiDIR, << x, y, z >>, seedDir * 4 + 1, 0),
                            DirRead(niiDIR, << x, y, z >>, seedDir * 4 + 2, 0),
                            DirRead(niiDIR, << x, y, z >>, seedDir * 4 + 3, 0) >>) ]_vars
  /\ [](pc = "save" => \A k \in 0..(foundAtXYZ - 1) :
                         LENGTHs[k] >= 2 /\ UDec(LENGTHs[k]) = LENGTHs[k] - 1)

\* the point p lies in a voxel of the white-matter mask that is inside the
\* grid and holds a non-zero value
InsideWM(p) ==
  LET w == << p[1] \div (SCALE * niiMASK.pixdim[1]), p[2] \div (SCALE * niiMASK.pixdim[2]),
              p[3] \div (SCALE * niiMASK.pixdim[3]) >>
  IN  /\ \A a \in 1..3 : 0 <= w[a] /\ w[a] < niiMASK.dim[a]
      /\ niiMASK.img[w[1] + niiMASK.dim[1] * (w[2] + niiMASK.dim[2] * w[3])] # 0

\* C31: in every fiber trackFromXYZ returns, every point but the first and
\* the last lies in a voxel of the white-matter mask that is inside the grid
\* and non-zero: only the two end points can lie outside the mask.
C31_InteriorInsideMask ==
  pc = "save" =>
    \A k \in 0..(foundAtXYZ - 1) : \A c \in 1..(LENGTHs[k] - 2) :
      InsideWM(ReadPoint(FIBERs[k], CONFIG.maxLength, c))

\* C31 happens: a fiber of at least 3 points whose first and last point are
\* both outside the mask and whose interior points are inside.
C31_Witness ==
  /\ pc = "save" /\ foundAtXYZ > 0 /\ LENGTHs[0] >= 3 /\ LENGTHs[0] <= CONFIG.maxLength
  /\ ~InsideWM(ReadPoint(FIBERs[0], CONFIG.maxLength, 0))
  /\ ~InsideWM(ReadPoint(FIBERs[0], CONFIG.maxLength, LENGTHs[0] - 1))
  /\ \A c \in 1..(LENGTHs[0] - 2) : InsideWM(ReadPoint(FIBERs[0], CONFIG.maxLength, c))

\* C32: maxLength caps both passes together.  The end of the forward pass
\* leaves the step counter as it is; when the forward pass has ended with
\* step = maxLength, the backward pass leaves its loop at once without
\* appending a point, and the seed point is the last point of the fiber.
C32_CapCoversBothPasses ==
  /\ [][ /\ (pc = "endPass" /\ semi_step = 0) => step' = step
         /\ (pc = "step" /\ semi_step = 1 /\ Len(tmp) = CONFIG.maxLength) =>
              (pc' = "endPass" /\ FIBERs' = FIBERs /\ step' = step)
         /\ (pc = "endPass" /\ semi_step = 1 /\ Len(tmp) = CONFIG.maxLength) =>
              LENGTHs'[found] = CONFIG.maxLength ]_vars
  /\ []((pc = "endPass" /\ semi_step = 1 /\ Len(tmp) = CONFIG.maxLength) =>
          /\ step = CONFIG.maxLength
          /\ ReadPoint(FIBERs[found], CONFIG.maxLength, step - 1) = COORD_seed)

\* C32 happens: a forward pass that made points beyond the first advance
\* used up maxLength, and the fiber is finished with the seed point last.
C32_Witness ==
  /\ pc = "save" /\ foundAtXYZ > 0 /\ CONFIG.maxLength >= 3
  /\ Len(tmp) = CONFIG.maxLength /\ LENGTHs[foundAtXYZ - 1] = CONFIG.maxLength
  /\ ReadPoint(FIBERs[foundAtXYZ - 1], CONFIG.maxLength, CONFIG.maxLength - 1) = COORD_seed

\* C33: doTracking, trackFromXYZ and pickBestDir never modify the direction
\* field, the white-matter mask, the seed mask or the configuration: every
\* step taken between the entry of doTracking and its return leaves the four
\* as they were, the picks of pickBestDir included.
C33_InputsReadOnly ==
  [][ (pc \in { "create", "voxel", "seed", "seedDir", "step", "endPass", "save",
                "updateTotal", "close", "return" }) =>
        ( niiDIR' = niiDIR /\ niiMASK' = niiMASK /\ niiSEED' = niiSEED /\
          CONFIG' = CONFIG ) ]_vars

\* a run that has returned after a backward step picked a record against its
\* sign and after a fiber was written
C33_Witness ==
  /\ pc = "mainEnd" /\ rets.doTracking > 0 /\ disk.records > 0
  /\ pick.called /\ pick.ret /\ pick.vecOut # pick.cand


\* C34: over create, append*, updateTotal, close and the destructor of one
\* TrackVis object fclose is called exactly once: close calls it and sets fp
\* to NULL, the destructor then finds fp NULL and calls nothing; neither of
\* the two touches the file, so the header that create wrote and updateTotal
\* patched is still in the file when the object is gone.
C34_ClosedOnceHeaderStays ==
  /\ [][ /\ (pc = "close") =>
             (TRK'.fp = "NULL" /\ calls'.fclose = calls.fclose + 1 /\ disk' = disk)
         /\ (pc = "return") =>
             (TRK'.fp = "NULL" /\ calls'.fclose = calls.fclose /\ disk' = disk) ]_vars
  /\ [](pc = "mainEnd" => (calls.fclose = 1 /\ TRK.fp = "NULL"))
  /\ []((pc = "mainEnd" /\ TRK.created = 1) =>
          /\ disk.exists /\ ~disk.clobbered
          /\ ReadHdr(disk) = [ dim |-> niiMASK.dim, voxel_size |-> niiMASK.pixdim,
                               n_count |-> calls.total ])

\* C34 happens: a created file took fibers, was patched with their number
\* and closed, and the destructor has run
C34_Witness ==
  /\ pc = "mainEnd" /\ TRK.created = 1 /\ calls.append > 0 /\ calls.updateTotal = 1
  /\ calls.total > 0 /\ calls.fclose = 1 /\ TRK.fp = "NULL"
  /\ ReadHdr(disk).n_count = calls.total


\* C35: append returns 1 exactly when one of its two fwrite calls is short,
\* and then no complete record is added; it returns 0 when the record was
\* written completely and when numPoints is above maxSteps, where nothing is
\* written.  From doTracking, behind the checks of main, the length handed
\* to append is at most maxLength + 1 <= 1001 < maxSteps, so the call is
\* never turned down.
C35_AppendReturnValue ==
  [][ /\ (pc = "append" /\ LENGTHs[i] <= maxSteps) =>
           /\ rets'.append = 1 <=> (disk'.torn = disk.torn + 1 /\ disk'.records = disk.records)
           /\ rets'.append = 0 <=> (disk'.records = disk.records + 1 /\ disk'.torn = disk.torn)
           /\ rets'.append \in {0, 1}
      /\ (pc = "append" /\ LENGTHs[i] > maxSteps) => (rets'.append = 0 /\ disk' = disk)
      /\ (pc = "save" /\ calls'.append = calls.append + 1) =>
           /\ LENGTHs[i] <= CONFIG.maxLength + 1
           /\ CONFIG.maxLength <= MaxLengthLimit /\ MaxLengthLimit + 1 < maxSteps
           /\ pc' # "crashed" =>
                /\ rets'.append = 1 <=>
                     (disk'.records = disk.records /\
                        (disk'.torn = disk.torn + 1 \/ TRK.fp = "NULL"))
                /\ rets'.append = 0 <=>
                     (disk'.records = disk.records + 1 /\ disk'.torn = disk.torn)
                /\ rets'.append \in {0, 1} ]_vars

\* C35 happens: the second fwrite of a call of append came back short, the
\* call returned 1 and the file holds no complete record
C35_Witness ==
  /\ pc = "appended" /\ LENGTHs[0] <= maxSteps /\ rets.append = 1
  /\ disk.torn = 1 /\ disk.records = 0 /\ writeFails = 1

====
